---------------------------- MODULE Spec2Model ----------------------------
(***************************************************************************)
(* A model of tools/sort/sort.py (class Sort): the sort methods, the group *)
(* methods, the two final processes and the dispatch in sort_process.      *)
(*                                                                         *)
(* File names are sequences of tokens ("0".."9", "_", "." and letter       *)
(* runs), so that the f-strings and os.path.splitext are computed and not  *)
(* assumed.  A path is a record [dir, name]; the content of a file is the  *)
(* path it had when the run started.                                       *)
(***************************************************************************)
EXTENDS Integers, Sequences, FiniteSets, TLC

VARIABLES
    args,        \* self._args
    pc,          \* position of the run
    img_list,    \* the list the sort method builds / the final process reads
    bins,        \* the list of bins a group method returns
    i,           \* outer loop index of the running method
    j,           \* inner loop index of the running method
    fs,          \* the files on disk: path -> content
    dirs,        \* the directories on disk
    changes,     \* self.changes
    saved,       \* what serializer.save was handed, in call order
    failed,      \* the operations that logged FileNotFoundError
    fs0,         \* the files on disk when the run started
    images,      \* what the loader yields: file, metadata, the metric's value
    reference_groups,  \* the reference lists of group_hist / group_face_cnn
    error        \* the exception that ended the run, "" for none

vars == <<args, pc, img_list, bins, i, j, fs, dirs, changes, saved, failed, fs0,
          images, reference_groups, error>>

\* what the final processes never touch, and what the other methods never touch
sortVars == <<images, reference_groups, error>>
diskVars == <<fs, dirs, changes, saved, failed, fs0>>

-----------------------------------------------------------------------------
(* Bounds of the model.                                                    *)

MaxItems == 3
MaxBins == 2
\* the items of a list that is split evenly, and args.num_bins
MaxSplitItems == 5
MaxNumBins == 4

-----------------------------------------------------------------------------
(* Strings.                                                                *)

Digits == <<"0", "1", "2", "3", "4", "5", "6", "7", "8", "9">>

RECURSIVE Dec(_)
\* str(n): the decimal digits of n >= 0
Dec(n) == IF n < 10 THEN <<Digits[n + 1]>>
          ELSE Dec(n \div 10) \o <<Digits[(n % 10) + 1]>>

RECURSIVE Zeros(_)
Zeros(k) == IF k <= 0 THEN <<>> ELSE <<"0">> \o Zeros(k - 1)

\* f"{n:05d}": at least five digits, zero padded on the left
Fmt05d(n) == Zeros(5 - Len(Dec(n))) \o Dec(n)

\* os.path.splitext(name)[1]: from the last dot on, unless only dots precede it
SplitExt(name) ==
    LET dots == {k \in 1..Len(name) : name[k] = "."}
    IN  IF dots = {} THEN <<>>
        ELSE LET d == CHOOSE k \in dots : \A m \in dots : m <= k
             IN  IF \E k \in 1..(d - 1) : name[k] # "."
                 THEN SubSeq(name, d, Len(name))
                 ELSE <<>>

\* os.path.join(directory, name)
Join(directory, name) == [dir |-> directory, name |-> name]

\* os.path.basename(path)
Basename(path) == path.name

\* f"{n:05d}_{src_basename}"
ScratchName(n, base) == Fmt05d(n) \o <<"_">> \o base

\* f"{n:05d}{os.path.splitext(src_basename)[1]}"
FinalName(n, base) == Fmt05d(n) \o SplitExt(base)

-----------------------------------------------------------------------------
(* The file system.                                                        *)

\* what makes copyfile / os.rename raise FileNotFoundError
Missing(f, d, src, dst) == src \notin DOMAIN f \/ dst.dir \notin d

\* shutil.copyfile(src, dst), src present
CopyFile(f, src, dst) ==
    [q \in DOMAIN f \cup {dst} |-> IF q = dst THEN f[src] ELSE f[q]]

\* os.rename(src, dst), src present: dst is replaced, src is gone
OsRename(f, src, dst) ==
    [q \in (DOMAIN f \ {src}) \cup {dst} |-> IF q = dst THEN f[src] ELSE f[q]]

\* changes[key] = value
Record(c, key, value) ==
    [q \in DOMAIN c \cup {key} |-> IF q = key THEN value ELSE c[q]]

EmptyMap == [q \in {} |-> q]

\* img_list[k] if isinstance(img_list[k], str) else img_list[k][0]
FileOf(entry) == entry.file


-----------------------------------------------------------------------------
(* The final processes.                                                    *)

\* set_process_file_method: what process_file does to the disk
ProcessFileFs(keep_original, f, src, dst) ==
    IF keep_original THEN CopyFile(f, src, dst) ELSE OsRename(f, src, dst)

\* set_process_file_method: what process_file does to changes (after the
\* copy or the move went through)
ProcessFileLog(log_changes, c, src, dst) ==
    IF log_changes THEN Record(c, src, dst) ELSE c

\* a renaming that records nothing
RenamingLogSkip(log_changes, c, src, dst) == c

\* set_renaming_method: what renaming does to changes (before final_process_rename
\* tries the os.rename); src is the name the caller passed, the item's own
RenamingLog(log_changes, c, src, dst) ==
    IF log_changes THEN Record(c, src, dst) ELSE c

\* a final name that drops the extension
RenamingDstNoExt(output_dir, n, fname) == Join(output_dir, Fmt05d(n))

\* set_renaming_method: the (src, dst) pair renaming returns
RenamingSrc(output_dir, n, fname) == Join(output_dir, ScratchName(n, Basename(fname)))
RenamingDst(output_dir, n, fname) == Join(output_dir, FinalName(n, Basename(fname)))

\* final_process_rename: the scratch destination of position n
ScratchDst(output_dir, n, src) == Join(output_dir, ScratchName(n, Basename(src)))

\* a destination in the output directory itself
FolderDstFlat(output_dir, n, src) == Join(output_dir, Basename(src))

\* final_process_folders: the directory and the destination of bin n
BinDir(output_dir, n) == output_dir \o <<Dec(n)>>
FolderDst(output_dir, n, src) == Join(BinDir(output_dir, n), Basename(src))

\* os.makedirs(directory): the directory and its parents
MakeDirs(d, directory) ==
    d \cup {SubSeq(directory, 1, k) : k \in 1..Len(directory)}

\* a save that does not look at log_changes
WriteToLogAlways(log_changes, s, c) == Append(s, c)

\* write_to_log
WriteToLog(log_changes, s, c) == IF log_changes THEN Append(s, c) ELSE s

Failure(phase, pos, src) == [phase |-> phase, pos |-> pos, src |-> src]

\* final_process_rename, up to the first loop
RenameBegin ==
    /\ pc = "final_process_rename"
    /\ dirs' = MakeDirs(dirs, args.output_dir)
    /\ pc' = "scratch"
    /\ i' = 0
    /\ UNCHANGED <<args, img_list, bins, j, fs, changes, saved, failed, fs0>>
    /\ UNCHANGED sortVars

\* final_process_rename, one iteration of the first loop
ScratchStep ==
    /\ pc = "scratch"
    /\ i < Len(img_list)
    /\ LET src == FileOf(img_list[i + 1])
           dst == ScratchDst(args.output_dir, i, src)
       IN  IF Missing(fs, dirs, src, dst)
           THEN /\ failed' = failed \cup {Failure("scratch", i, src)}
                /\ UNCHANGED <<fs, changes>>
           ELSE /\ fs' = ProcessFileFs(args.keep_original, fs, src, dst)
                /\ changes' = ProcessFileLog(args.log_changes, changes, src, dst)
                /\ UNCHANGED failed
    /\ i' = i + 1
    /\ UNCHANGED <<args, pc, img_list, bins, j, dirs, saved, fs0>>
    /\ UNCHANGED sortVars

\* final_process_rename, from the first loop to the second
ScratchEnd ==
    /\ pc = "scratch"
    /\ i = Len(img_list)
    /\ pc' = "strip"
    /\ i' = 0
    /\ UNCHANGED <<args, img_list, bins, j, fs, dirs, changes, saved, failed, fs0>>
    /\ UNCHANGED sortVars

\* final_process_rename, one iteration of the second loop
StripStep ==
    /\ pc = "strip"
    /\ i < Len(img_list)
    /\ LET fname == FileOf(img_list[i + 1])
           src == RenamingSrc(args.output_dir, i, fname)
           dst == RenamingDst(args.output_dir, i, fname)
       IN  /\ changes' = RenamingLog(args.log_changes, changes, fname, dst)
           /\ IF Missing(fs, dirs, src, dst)
              THEN /\ failed' = failed \cup {Failure("strip", i, fname)}
                   /\ UNCHANGED fs
              ELSE /\ fs' = OsRename(fs, src, dst)
                   /\ UNCHANGED failed
    /\ i' = i + 1
    /\ UNCHANGED <<args, pc, img_list, bins, j, dirs, saved, fs0>>
    /\ UNCHANGED sortVars

\* final_process_rename, after the second loop
RenameEnd ==
    /\ pc = "strip"
    /\ i = Len(img_list)
    /\ saved' = WriteToLog(args.log_changes, saved, changes)
    /\ pc' = "done"
    /\ UNCHANGED <<args, img_list, bins, i, j, fs, dirs, changes, failed, fs0>>
    /\ UNCHANGED sortVars

\* final_process_folders, up to the directory loop
FoldersBegin ==
    /\ pc = "final_process_folders"
    /\ pc' = "mkdirs"
    /\ i' = 0
    /\ UNCHANGED <<args, img_list, bins, j, fs, dirs, changes, saved, failed, fs0>>
    /\ UNCHANGED sortVars

\* final_process_folders, one iteration of the directory loop
MkdirStep ==
    /\ pc = "mkdirs"
    /\ i < Len(bins)
    /\ dirs' = MakeDirs(dirs, BinDir(args.output_dir, i))
    /\ i' = i + 1
    /\ UNCHANGED <<args, pc, img_list, bins, j, fs, changes, saved, failed, fs0>>
    /\ UNCHANGED sortVars

\* final_process_folders, from the directory loop to the bins
MkdirEnd ==
    /\ pc = "mkdirs"
    /\ i = Len(bins)
    /\ pc' = "folders"
    /\ i' = 0
    /\ j' = 0
    /\ UNCHANGED <<args, img_list, bins, fs, dirs, changes, saved, failed, fs0>>
    /\ UNCHANGED sortVars

\* final_process_folders, one item of one bin
FolderStep ==
    /\ pc = "folders"
    /\ i < Len(bins)
    /\ j < Len(bins[i + 1])
    /\ LET src == bins[i + 1][j + 1]
           dst == FolderDst(args.output_dir, i, src)
       IN  IF Missing(fs, dirs, src, dst)
           THEN /\ failed' = failed \cup {Failure("folders", i, src)}
                /\ UNCHANGED <<fs, changes>>
           ELSE /\ fs' = ProcessFileFs(args.keep_original, fs, src, dst)
                /\ changes' = ProcessFileLog(args.log_changes, changes, src, dst)
                /\ UNCHANGED failed
    /\ j' = j + 1
    /\ UNCHANGED <<args, pc, img_list, bins, i, dirs, saved, fs0>>
    /\ UNCHANGED sortVars

\* final_process_folders, from one bin to the next
FolderNextBin ==
    /\ pc = "folders"
    /\ i < Len(bins)
    /\ j = Len(bins[i + 1])
    /\ i' = i + 1
    /\ j' = 0
    /\ UNCHANGED <<args, pc, img_list, bins, fs, dirs, changes, saved, failed, fs0>>
    /\ UNCHANGED sortVars

\* final_process_folders, after the last bin
FoldersEnd ==
    /\ pc = "folders"
    /\ i = Len(bins)
    /\ saved' = WriteToLog(args.log_changes, saved, changes)
    /\ pc' = "done"
    /\ UNCHANGED <<args, img_list, bins, i, j, fs, dirs, changes, failed, fs0>>
    /\ UNCHANGED sortVars

FinalNext ==
    \/ RenameBegin \/ ScratchStep \/ ScratchEnd \/ StripStep \/ RenameEnd
    \/ FoldersBegin \/ MkdirStep \/ MkdirEnd \/ FolderStep \/ FolderNextBin
    \/ FoldersEnd

-----------------------------------------------------------------------------
(* The final processes on their own: any list or bins of up to MaxItems    *)
(* files of the input directory, some of them gone from the disk since     *)
(* they were listed.                                                       *)

final_process_rename ==
    <<"f", "i", "n", "a", "l", "_", "p", "r", "o", "c", "e", "s", "s", "_", "r", "e", "n", "a", "m", "e">>
final_process_folders ==
    <<"f", "i", "n", "a", "l", "_", "p", "r", "o", "c", "e", "s", "s", "_", "f", "o", "l", "d", "e", "r", "s">>

InDir == <<"in">>
OutDir == <<"out">>

\* a.png, b.jpg, 00000_a.png, 00000.png
NamePool ==
    { <<"a", ".", "png">>,
      <<"b", ".", "jpg">>,
      <<"0", "0", "0", "0", "0", "_", "a", ".", "png">>,
      <<"0", "0", "0", "0", "0", ".", "png">> }

InputFiles == {Join(InDir, n) : n \in NamePool}

\* the lists of n different files
Lists(n) == {s \in [1..n -> InputFiles] : \A a, b \in 1..n : a # b => s[a] # s[b]}

Entry(file, val) == [file |-> file, val |-> val]

\* list cut into k consecutive bins at the places cut[1] <= ... <= cut[k-1]
Split(list, k, cut) ==
    [b \in 1..k |->
        SubSeq(list,
               (IF b = 1 THEN 0 ELSE cut[b - 1]) + 1,
               IF b = k THEN Len(list) ELSE cut[b])]

Splits(list) ==
    { Split(list, k, cut) :
        k \in 1..MaxBins,
        cut \in {c \in [1..(MaxBins - 1) -> 0..Len(list)] :
                    \A a, b \in 1..(MaxBins - 1) : a <= b => c[a] <= c[b]} }

FinalInit ==
    /\ \E n \in 0..MaxItems : \E list \in Lists(n) :
       \E present \in SUBSET {list[k] : k \in 1..n} :
       \E keep \in BOOLEAN, log \in BOOLEAN, out \in {InDir, OutDir} :
       \E final \in {final_process_rename, final_process_folders} :
          /\ args = [sort_method |-> <<>>, group_method |-> <<>>,
                     final_process |-> final, input_dir |-> InDir,
                     output_dir |-> out, keep_original |-> keep,
                     log_changes |-> log, num_bins |-> 1, min_threshold |-> 0]
          /\ img_list = [k \in 1..n |-> Entry(list[k], 0)]
          /\ IF final = final_process_folders
             THEN bins \in Splits(list) \cup {<<>>}
             ELSE bins = <<>>
          /\ fs = [p \in present |-> p]
          /\ pc = IF final = final_process_rename
                  THEN "final_process_rename" ELSE "final_process_folders"
    /\ i = 0
    /\ j = 0
    /\ dirs = {InDir}
    /\ changes = EmptyMap
    /\ saved = <<>>
    /\ failed = {}
    /\ fs0 = fs
    /\ images = <<>>
    /\ reference_groups = <<>>
    /\ error = ""

SpecFinal == FinalInit /\ [][FinalNext]_vars


-----------------------------------------------------------------------------
(* Claims about the final processes (checked under SpecFinal).             *)

RenameMode == args.final_process = final_process_rename
FolderMode == args.final_process = final_process_folders
Positions == 0..(Len(img_list) - 1)
SrcAt(k) == FileOf(img_list[k + 1])
ScratchAt(k) == ScratchDst(args.output_dir, k, SrcAt(k))
\* the final path of position k, spelt from the file's last two tokens ("." ext)
ExtOf(name) == SubSeq(name, Len(name) - 1, Len(name))
FinalAt(k) == Join(args.output_dir, Fmt05d(k) \o ExtOf(Basename(SrcAt(k))))
FailedSources == {f.src : f \in failed}
ScratchFailed == {f.pos : f \in {g \in failed : g.phase = "scratch"}}
Persisted == {saved[k] : k \in 1..Len(saved)}

\* C3: with logging enabled, in rename mode and in folder mode, at every
\* moment of the run and in the persisted log, no ChangeLog entry exists for
\* an item whose copy, move or rename raised a missing-file error.
C3_LogOnlySucceeded ==
    args.log_changes =>
        /\ \A src \in FailedSources : src \notin DOMAIN changes
        /\ \A log \in Persisted : \A src \in FailedSources : src \notin DOMAIN log

\* C4: in rename mode, when the scratch-phase copy or move of position k (and
\* of no other position) failed on a missing source, then after the run
\* (a) no file of position k is in the output directory, (b) the ChangeLog
\* has no entry for that item, (c) every other position has its final file.
C4_NoFileForFailed ==
    (pc = "done" /\ RenameMode) =>
        \A k \in Positions : ScratchFailed = {k} =>
            /\ ScratchAt(k) \notin DOMAIN fs
            /\ FinalAt(k) \notin DOMAIN fs
C4_NoEntryForFailed ==
    (pc = "done" /\ RenameMode) =>
        \A k \in Positions : ScratchFailed = {k} =>
            /\ SrcAt(k) \notin DOMAIN changes
            /\ \A log \in Persisted : SrcAt(k) \notin DOMAIN log
C4_OthersRenamed ==
    (pc = "done" /\ RenameMode) =>
        \A k \in Positions : ScratchFailed = {k} =>
            \A m \in Positions \ {k} : FinalAt(m) \in DOMAIN fs
C4_PartialFailure ==
    C4_NoFileForFailed /\ C4_NoEntryForFailed /\ C4_OthersRenamed

\* C5 (how): in rename mode with the output directory equal to the input
\* directory, the scratch name written for a position equals neither another
\* position's scratch name nor another item's original name.
C5_ScratchNamesApart ==
    (RenameMode /\ args.output_dir = args.input_dir /\ pc = "scratch") =>
        \A a \in Positions : (a < i /\ a \notin ScratchFailed) =>
            \A b \in Positions \ {a} :
                ScratchAt(a) # ScratchAt(b) /\ ScratchAt(a) # SrcAt(b)

\* C5: rename mode is safe when the output directory equals the input
\* directory: while the scratch phase runs, every source that is still to be
\* processed is on disk with its own content, neither overwritten nor removed
\* by the scratch step of an earlier position.
C5_RenameInPlaceSafe ==
    (RenameMode /\ args.output_dir = args.input_dir /\ pc = "scratch") =>
        \A b \in Positions : (b >= i /\ SrcAt(b) \in DOMAIN fs0) =>
            (SrcAt(b) \in DOMAIN fs /\ fs[SrcAt(b)] = fs0[SrcAt(b)])

\* C6: in rename mode, when no operation of either phase failed, the output
\* directory holds after the run the file {k:05d}{ext of the item at k} for
\* every position k, these are all the files the run left there (the others
\* are sources a copying run left in place), and no scratch file remains.
C6_RenameRoundTrip ==
    (pc = "done" /\ RenameMode /\ failed = {}) =>
        LET finals == {FinalAt(k) : k \in Positions}
            left == IF args.keep_original /\ args.output_dir = args.input_dir
                    THEN DOMAIN fs0 ELSE {}
        IN  /\ finals \subseteq DOMAIN fs
            /\ Cardinality(finals) = Len(img_list)
            /\ {p \in DOMAIN fs : p.dir = args.output_dir} \subseteq finals \cup left
            /\ \A k \in Positions : ScratchAt(k) \notin DOMAIN fs
C6_Witness ==
    /\ pc = "done" /\ RenameMode /\ failed = {}
    /\ Len(img_list) >= 2
    /\ args.output_dir = args.input_dir
    /\ ~args.keep_original

\* the sources the final process was handed
Handled ==
    IF RenameMode THEN {SrcAt(k) : k \in Positions}
    ELSE UNION {{bins[b][k] : k \in 1..Len(bins[b])} : b \in 1..Len(bins)}

\* C7: with keep-original every source that was on disk before the run is
\* still there, with its name and content, after the run; without it every
\* source that was processed without an error is gone from its path.
C7_KeptSourcesIntact ==
    (pc = "done" /\ args.keep_original) =>
        \A p \in DOMAIN fs0 : p \in DOMAIN fs /\ fs[p] = fs0[p]
C7_MovedSourcesGone ==
    (pc = "done" /\ ~args.keep_original) =>
        \A p \in Handled \ FailedSources : p \notin DOMAIN fs
C7_KeepOriginal == C7_KeptSourcesIntact /\ C7_MovedSourcesGone

\* C8 as stated: in rename mode with logging, the persisted ChangeLog maps the
\* scratch path of every position to its final path, no value is a scratch
\* path and no key is an original source path.
C8_LogScratchToFinal ==
    (pc = "done" /\ RenameMode /\ args.log_changes) =>
        \A log \in Persisted :
            /\ \A k \in Positions :
                   ScratchAt(k) \in DOMAIN log /\ log[ScratchAt(k)] = FinalAt(k)
            /\ \A key \in DOMAIN log : \A k \in Positions :
                   log[key] # ScratchAt(k) /\ key # SrcAt(k)

\* C8 as amended: in rename mode with logging, the persisted ChangeLog has
\* exactly one entry per position, keyed by the item's original source path
\* and mapping it to the final path; no value is a scratch path.
C8_LogOriginalToFinal ==
    (pc = "done" /\ RenameMode /\ args.log_changes) =>
        /\ Len(saved) = 1
        /\ DOMAIN saved[1] = {SrcAt(k) : k \in Positions}
        /\ \A k \in Positions :
               /\ saved[1][SrcAt(k)] = FinalAt(k)
               /\ \A key \in DOMAIN saved[1] : saved[1][key] # ScratchAt(k)
C8_Witness ==
    /\ pc = "done" /\ RenameMode /\ args.log_changes
    /\ Len(img_list) >= 2
    /\ Len(saved) = 1

\* the (bin, item) pairs, from 0, that the loop of final_process_folders has
\* been through
FolderDone ==
    IF pc = "done"
    THEN {<<b, k>> \in (0..(Len(bins) - 1)) \X (0..(MaxItems + 1)) : k < Len(bins[b + 1])}
    ELSE IF pc = "folders"
    THEN {<<b, k>> \in (0..(Len(bins) - 1)) \X (0..(MaxItems + 1)) :
             /\ k < Len(bins[b + 1])
             /\ b < i \/ (b = i /\ k < j)}
    ELSE {}

\* output/<b>/<basename of the item k of bin b>
FolderPath(b, k) ==
    [dir |-> args.output_dir \o <<Dec(b)>>, name |-> bins[b + 1][k + 1].name]

\* C21: in folder mode no file is copied or moved, and none has failed,
\* before the directory of every bin, the empty ones too, exists; then every
\* item the loop has been through is at output/<bin>/<basename> with its
\* content if its source was on disk, and otherwise is recorded as failed,
\* is not in the output, and the loop has gone on to the items after it.
C21_FoldersThenFiles ==
    FolderMode =>
        /\ pc \in {"final_process_folders", "mkdirs"} =>
               fs = fs0 /\ failed = {} /\ changes = EmptyMap
        /\ pc \in {"folders", "done"} =>
               \A b \in 0..(Len(bins) - 1) : (args.output_dir \o <<Dec(b)>>) \in dirs
        /\ \A d \in FolderDone :
               LET src == bins[d[1] + 1][d[2] + 1]
                   dst == FolderPath(d[1], d[2])
               IN  IF src \in DOMAIN fs0
                   THEN /\ dst \in DOMAIN fs
                        /\ fs[dst] = fs0[src]
                        /\ src \notin FailedSources
                   ELSE /\ dst \notin DOMAIN fs
                        /\ src \in FailedSources
        /\ pc = "done" => error = ""
C21_Witness ==
    /\ FolderMode
    /\ pc = "done"
    /\ Len(bins) = 2
    /\ Len(bins[1]) = 2
    /\ Len(bins[2]) = 1
    /\ bins[1][1] \notin DOMAIN fs0
    /\ FolderPath(0, 1) \in DOMAIN fs
    /\ FolderPath(1, 0) \in DOMAIN fs
    /\ ~args.keep_original
    /\ bins[1][2] \notin DOMAIN fs

\* C22: nothing is saved while a final process is at work on the items, and
\* nothing at all without log_changes; when the final process is done, after
\* the last position of the strip loop or the last bin, the log has been saved
\* exactly once, with the changes as they are at the end, whether or not
\* items have failed.
C22_SavedOnceAtEnd ==
    /\ ~args.log_changes => saved = <<>>
    /\ pc # "done" => saved = <<>>
    /\ pc = "done" =>
           /\ RenameMode => i = Len(img_list)
           /\ FolderMode => i = Len(bins)
           /\ args.log_changes => (Len(saved) = 1 /\ saved[1] = changes)
C22_Witness ==
    /\ pc = "done"
    /\ args.log_changes
    /\ FolderMode
    /\ failed # {}
    /\ DOMAIN changes # {}
    /\ saved = <<changes>>


-----------------------------------------------------------------------------
(* The sort methods.  Method names are sequences of characters.            *)

sort_distance ==
    <<"s", "o", "r", "t", "_", "d", "i", "s", "t", "a", "n", "c", "e">>
sort_blur ==
    <<"s", "o", "r", "t", "_", "b", "l", "u", "r">>
sort_blur_fft ==
    <<"s", "o", "r", "t", "_", "b", "l", "u", "r", "_", "f", "f", "t">>
sort_color ==
    <<"s", "o", "r", "t", "_", "c", "o", "l", "o", "r">>
sort_face ==
    <<"s", "o", "r", "t", "_", "f", "a", "c", "e">>
sort_face_cnn ==
    <<"s", "o", "r", "t", "_", "f", "a", "c", "e", "_", "c", "n", "n">>
sort_face_cnn_dissim ==
    <<"s", "o", "r", "t", "_", "f", "a", "c", "e", "_", "c", "n", "n", "_", "d", "i", "s", "s", "i", "m">>
sort_face_yaw ==
    <<"s", "o", "r", "t", "_", "f", "a", "c", "e", "_", "y", "a", "w">>
sort_hist ==
    <<"s", "o", "r", "t", "_", "h", "i", "s", "t">>
sort_hist_dissim ==
    <<"s", "o", "r", "t", "_", "h", "i", "s", "t", "_", "d", "i", "s", "s", "i", "m">>
sort_size ==
    <<"s", "o", "r", "t", "_", "s", "i", "z", "e">>
sort_black_pixels ==
    <<"s", "o", "r", "t", "_", "b", "l", "a", "c", "k", "_", "p", "i", "x", "e", "l", "s">>

\* the sort_* methods of the class that the tool offers
SortMethods ==
    { sort_distance, sort_blur, sort_blur_fft, sort_color, sort_face,
      sort_face_cnn, sort_face_cnn_dissim, sort_face_yaw, sort_hist,
      sort_hist_dissim, sort_size, sort_black_pixels }

\* the methods that raise FaceswapError on an image without metadata
\* the check of the metadata kept in one method only
NeedsMetadataFaceOnly == {sort_face}

NeedsMetadata == {sort_distance, sort_face, sort_face_yaw, sort_size}

\* the methods whose value is a vector (landmarks, histogram, prediction)
VectorValued ==
    {sort_face, sort_face_cnn, sort_face_cnn_dissim, sort_hist, sort_hist_dissim}

\* float("inf")
Inf == 1000000

Abs(x) == IF x < 0 THEN 0 - x ELSE x

RECURSIVE Sum(_)
Sum(seq) == IF seq = <<>> THEN 0 ELSE Head(seq) + Sum(Tail(seq))

\* np.sum(np.absolute((fl2 - fl1).flatten()))
LandmarkScore(fl1, fl2) == Sum([k \in 1..Len(fl1) |-> Abs(fl2[k] - fl1[k])])

\* cv2.compareHist(h1, h2, cv2.HISTCMP_BHATTACHARYYA): a symmetric distance
\* that is 0 between equal histograms
CompareHist(h1, h2) == Sum([k \in 1..Len(h1) |-> Abs(h1[k] - h2[k])])

\* the comparator of a chain or dissimilarity sort
Distance(method, v1, v2) ==
    IF method \in {sort_hist, sort_hist_dissim}
    THEN CompareHist(v1, v2) ELSE LandmarkScore(v1, v2)

\* sorted(list, key=..., reverse=...): stable, also when reversed
Sorted(list, keys, reverse) ==
    LET n == Len(list)
        Before(a, b) ==
            \/ (reverse /\ keys[a] > keys[b])
            \/ (~reverse /\ keys[a] < keys[b])
            \/ (keys[a] = keys[b] /\ a < b)
        Rank(a) == Cardinality({b \in 1..n : Before(b, a)}) + 1
    IN  [p \in 1..n |-> list[CHOOSE a \in 1..n : Rank(a) = p]]

\* a swap that loses the second assignment
SwapLossy(list, a, b) == [list EXCEPT ![a + 1] = list[b + 1]]

\* (list[a], list[b]) = (list[b], list[a]), Python indices
Swap(list, a, b) ==
    [list EXCEPT ![a + 1] = list[b + 1], ![b + 1] = list[a + 1]]

RECURSIVE ScanMinLast(_, _, _, _, _, _)
\* the inner loop with <= for <: the last index of the least score
ScanMinLast(method, list, at, n, min_score, j_min_score) ==
    IF n >= Len(list) THEN j_min_score
    ELSE LET score == Distance(method, list[at + 1].val, list[n + 1].val)
         IN  IF score <= min_score
             THEN ScanMinLast(method, list, at, n + 1, score, n)
             ELSE ScanMinLast(method, list, at, n + 1, min_score, j_min_score)

RECURSIVE ScanMin(_, _, _, _, _, _)
\* the inner loop of sort_hist / sort_face_cnn from index n on: the first
\* index whose score is strictly below every score before it
ScanMin(method, list, at, n, min_score, j_min_score) ==
    IF n >= Len(list) THEN j_min_score
    ELSE LET score == Distance(method, list[at + 1].val, list[n + 1].val)
         IN  IF score < min_score
             THEN ScanMin(method, list, at, n + 1, score, n)
             ELSE ScanMin(method, list, at, n + 1, min_score, j_min_score)

\* j_min_score of iteration at
JMinScore(method, list, at) == ScanMin(method, list, at, at + 1, Inf, at + 1)

\* score_total of item at: sort_hist_dissim adds every other item,
\* sort_face_cnn_dissim the items after it
ScoreTotal(method, list, at) ==
    LET from == IF method = sort_hist_dissim THEN 0 ELSE at + 1
    IN  Sum([k \in 1..(Len(list) - from) |->
                IF from + k - 1 = at THEN 0
                ELSE Distance(method, list[at + 1].val, list[from + k].val)])

\* the number of items the scoring loop of the dissimilarity sort visits
DissimRange(method, list) ==
    IF method = sort_hist_dissim THEN Len(list) ELSE Len(list) - 1

Entry3(file, val, score) == [file |-> file, val |-> val, score |-> score]

\* what the method reads: sort_distance lists the directory itself and keeps
\* the names whose extension is exactly ".png"
Listed(method) ==
    IF method = sort_distance
    THEN SelectSeq(images, LAMBDA im : SplitExt(Basename(im.file)) = <<".", "png">>)
    ELSE images

\* the entry a method appends for one image
Scored(method, im) ==
    IF method \in {sort_hist_dissim, sort_face_cnn_dissim} THEN Entry3(im.file, im.val, 0)
    ELSE Entry(im.file, im.val)

\* getattr(self, sort_method)(), up to the loop over the images
SortBegin ==
    /\ pc = "sort"
    /\ IF args.sort_method \in SortMethods
       THEN /\ pc' = "score"
            /\ UNCHANGED error
       ELSE /\ pc' = "raised"
            /\ error' = "AttributeError"
    /\ img_list' = <<>>
    /\ i' = 0
    /\ UNCHANGED <<args, bins, j, images, reference_groups>>
    /\ UNCHANGED diskVars

\* one image of the loading / scoring loop
ScoreStep ==
    /\ pc = "score"
    /\ i < Len(Listed(args.sort_method))
    /\ LET im == Listed(args.sort_method)[i + 1]
       IN  IF args.sort_method \in NeedsMetadata /\ ~im.metadata
           THEN /\ pc' = "raised"
                /\ error' = "FaceswapError"
                /\ UNCHANGED img_list
           ELSE /\ img_list' = Append(img_list, Scored(args.sort_method, im))
                /\ UNCHANGED <<pc, error>>
    /\ i' = i + 1
    /\ UNCHANGED <<args, bins, j, images, reference_groups>>
    /\ UNCHANGED diskVars

\* the methods that end in one call of sorted()
SortSorted ==
    /\ pc = "score"
    /\ i = Len(Listed(args.sort_method))
    /\ args.sort_method \in
           {sort_distance, sort_blur, sort_blur_fft, sort_color, sort_face_yaw, sort_size}
    /\ img_list' = Sorted(img_list, [k \in 1..Len(img_list) |-> img_list[k].val],
                          args.sort_method # sort_distance)
    /\ pc' = "sorted"
    /\ UNCHANGED <<args, bins, i, j, images, reference_groups, error>>
    /\ UNCHANGED diskVars

\* sort_face: the order is the recognition model's (sorted_similarity), the
\* result an array of the file names alone
SortFace ==
    /\ pc = "score"
    /\ i = Len(Listed(args.sort_method))
    /\ args.sort_method = sort_face
    /\ \E indices \in [1..Len(img_list) -> 1..Len(img_list)] :
          /\ \A a, b \in 1..Len(img_list) : a # b => indices[a] # indices[b]
          /\ img_list' = [k \in 1..Len(img_list) |-> Entry(img_list[indices[k]].file, <<>>)]
    /\ pc' = "sorted"
    /\ UNCHANGED <<args, bins, i, j, images, reference_groups, error>>
    /\ UNCHANGED diskVars

\* sort_hist, sort_face_cnn: from the loading to the swap loop
ChainBegin ==
    /\ pc = "score"
    /\ i = Len(Listed(args.sort_method))
    /\ args.sort_method \in {sort_hist, sort_face_cnn}
    /\ pc' = "chain"
    /\ i' = 0
    /\ UNCHANGED <<args, img_list, bins, j, images, reference_groups, error>>
    /\ UNCHANGED diskVars

\* sort_hist, sort_face_cnn: one iteration of the swap loop
ChainStep ==
    /\ pc = "chain"
    /\ i < Len(img_list) - 1
    /\ img_list' = Swap(img_list, i + 1, JMinScore(args.sort_method, img_list, i))
    /\ i' = i + 1
    /\ UNCHANGED <<args, pc, bins, j, images, reference_groups, error>>
    /\ UNCHANGED diskVars

ChainEnd ==
    /\ pc = "chain"
    /\ i >= Len(img_list) - 1
    /\ pc' = "sorted"
    /\ UNCHANGED <<args, img_list, bins, i, j, images, reference_groups, error>>
    /\ UNCHANGED diskVars

\* sort_hist_dissim, sort_face_cnn_dissim: from the loading to the score loop
DissimBegin ==
    /\ pc = "score"
    /\ i = Len(Listed(args.sort_method))
    /\ args.sort_method \in {sort_hist_dissim, sort_face_cnn_dissim}
    /\ pc' = "dissim"
    /\ i' = 0
    /\ UNCHANGED <<args, img_list, bins, j, images, reference_groups, error>>
    /\ UNCHANGED diskVars

\* one iteration of the score loop: img_list[i][2] = score_total
DissimStep ==
    /\ pc = "dissim"
    /\ i < DissimRange(args.sort_method, img_list)
    /\ img_list' = [img_list EXCEPT
                       ![i + 1].score = ScoreTotal(args.sort_method, img_list, i)]
    /\ i' = i + 1
    /\ UNCHANGED <<args, pc, bins, j, images, reference_groups, error>>
    /\ UNCHANGED diskVars

\* sorted(img_list, key=score, reverse=True)
DissimEnd ==
    /\ pc = "dissim"
    /\ i >= DissimRange(args.sort_method, img_list)
    /\ img_list' = Sorted(img_list, [k \in 1..Len(img_list) |-> img_list[k].score], TRUE)
    /\ pc' = "sorted"
    /\ UNCHANGED <<args, bins, i, j, images, reference_groups, error>>
    /\ UNCHANGED diskVars

\* sort_black_pixels: from the loading to the two loops
BubbleBegin ==
    /\ pc = "score"
    /\ i = Len(Listed(args.sort_method))
    /\ args.sort_method = sort_black_pixels
    /\ pc' = "bubble"
    /\ i' = 0
    /\ j' = 0
    /\ UNCHANGED <<args, img_list, bins, images, reference_groups, error>>
    /\ UNCHANGED diskVars

\* sort_black_pixels: one iteration of the inner loop
BubbleStep ==
    /\ pc = "bubble"
    /\ i < Len(img_list) - 1
    /\ j < Len(img_list) - i - 1
    /\ img_list' = IF img_list[j + 1].val > img_list[j + 2].val
                   THEN Swap(img_list, j, j + 1) ELSE img_list
    /\ j' = j + 1
    /\ UNCHANGED <<args, pc, bins, i, images, reference_groups, error>>
    /\ UNCHANGED diskVars

\* sort_black_pixels: the next iteration of the outer loop
BubblePass ==
    /\ pc = "bubble"
    /\ i < Len(img_list) - 1
    /\ j = Len(img_list) - i - 1
    /\ i' = i + 1
    /\ j' = 0
    /\ UNCHANGED <<args, pc, img_list, bins, images, reference_groups, error>>
    /\ UNCHANGED diskVars

BubbleEnd ==
    /\ pc = "bubble"
    /\ i >= Len(img_list) - 1
    /\ pc' = "sorted"
    /\ UNCHANGED <<args, img_list, bins, i, j, images, reference_groups, error>>
    /\ UNCHANGED diskVars

SortNext ==
    \/ SortBegin \/ ScoreStep \/ SortSorted \/ SortFace
    \/ ChainBegin \/ ChainStep \/ ChainEnd
    \/ DissimBegin \/ DissimStep \/ DissimEnd
    \/ BubbleBegin \/ BubbleStep \/ BubblePass \/ BubbleEnd


-----------------------------------------------------------------------------
(* The sort methods on their own: up to MaxItems images with any values.   *)

\* the order in which the loader yields the files of the input directory
FileOrder ==
    << Join(InDir, <<"a", ".", "png">>),
       Join(InDir, <<"b", ".", "jpg">>),
       Join(InDir, <<"0", "0", "0", "0", "0", "_", "a", ".", "png">>),
       Join(InDir, <<"0", "0", "0", "0", "0", ".", "png">>),
       Join(InDir, <<"c", ".", "jpeg">>),
       Join(InDir, <<"d", ".", "png">>),
       Join(InDir, <<"e", ".", "png">>) >>

\* the values a scalar metric takes (a percentage for black-pixels)
ScalarPool == {0, 25, 60, 100}

\* the values a vector metric takes: two coordinates stand for the landmarks
\* of a face or the buckets of a histogram
VecPool == {<<0, 0>>, <<1, 0>>, <<0, 2>>, <<3, 3>>}

ValuePool(method) == IF method \in VectorValued THEN VecPool ELSE ScalarPool

Counts == 0..(IF MaxItems < Len(FileOrder) THEN MaxItems ELSE Len(FileOrder))

\* regroup is the value reload_images computes for the image
Image(file, metadata, val, regroup) ==
    [file |-> file, metadata |-> metadata, val |-> val, regroup |-> regroup]

DefaultArgs ==
    [sort_method |-> sort_hist, group_method |-> <<>>, final_process |-> <<>>,
     input_dir |-> InDir, output_dir |-> InDir, keep_original |-> FALSE,
     log_changes |-> FALSE, num_bins |-> 1, min_threshold |-> 0]

SortInit ==
    /\ \E method \in SortMethods : \E n \in Counts :
       \E val \in [1..n -> ValuePool(method)] :
          /\ args = [DefaultArgs EXCEPT !.sort_method = method]
          /\ images = [k \in 1..n |-> Image(FileOrder[k], TRUE, val[k], val[k])]
    /\ pc = "sort"
    /\ img_list = <<>>
    /\ bins = <<>>
    /\ reference_groups = <<>>
    /\ i = 0
    /\ j = 0
    /\ fs = [p \in {images[k].file : k \in 1..Len(images)} |-> p]
    /\ dirs = {InDir}
    /\ changes = EmptyMap
    /\ saved = <<>>
    /\ failed = {}
    /\ fs0 = fs
    /\ error = ""

SpecSort == SortInit /\ [][SortNext]_vars

\* how often file f is in a list of entries
Count(list, f) == Cardinality({k \in 1..Len(list) : list[k].file = f})

\* C2: from the moment a sort method has read its input, at every iteration
\* of its loops and at its return, its list holds every file it read exactly
\* as often as the input did: nothing is dropped, nothing is duplicated.
C2_SortIsPermutation ==
    pc \in {"chain", "dissim", "bubble", "sorted"} =>
        /\ Len(img_list) = Len(Listed(args.sort_method))
        /\ \A k \in 1..Len(FileOrder) :
               Count(img_list, FileOrder[k]) = Count(Listed(args.sort_method), FileOrder[k])
C2_Witness ==
    /\ pc = "sorted"
    /\ Len(img_list) >= 3
    /\ args.sort_method \in {sort_hist, sort_face_cnn, sort_black_pixels}
    /\ img_list[2].file # images[2].file

\* the chain sorts
ChainMethods == {sort_hist, sort_face_cnn}

\* the list a sort method starts from: the images it read, in their order
Loaded == [k \in 1..Len(Listed(args.sort_method)) |-> Entry(Listed(args.sort_method)[k].file, Listed(args.sort_method)[k].val)]

\* the distance of the entries at the positions p and q (from 1) of a list
Gap(list, p, q) == Distance(args.sort_method, list[p].val, list[q].val)

\* the position, after p, of the entry nearest to the one at p: the lowest
\* one on ties
NearestAfter(list, p) ==
    CHOOSE q \in (p + 1)..Len(list) :
        /\ \A k \in (p + 1)..Len(list) : Gap(list, p, q) <= Gap(list, p, k)
        /\ \A k \in (p + 1)..(q - 1) : Gap(list, p, q) < Gap(list, p, k)

RECURSIVE Chained(_)
\* the list of C17 after the first steps iterations
Chained(steps) ==
    IF steps = 0 THEN Loaded
    ELSE LET before == Chained(steps - 1)
             q == NearestAfter(before, steps)
         IN  [before EXCEPT ![steps + 1] = before[q], ![q] = before[steps + 1]]

\* C17: sort_hist and sort_face_cnn keep the first item first; iteration i
\* puts at position i+1 the item that is nearest to the item at i among those
\* at i+1..n-1, the lowest index on ties, so that the list is at every
\* iteration, and at the return, the one these rules fix from the values and
\* the order of the input; and every item of the part that is done is at
\* most as far from its successor as from any later item.
C17_ChainSort ==
    (pc \in {"chain", "sorted"} /\ args.sort_method \in ChainMethods) =>
        /\ Len(img_list) >= 1 => img_list[1] = Loaded[1]
        /\ img_list = Chained(i)
        /\ pc = "sorted" => i = (IF Len(img_list) = 0 THEN 0 ELSE Len(img_list) - 1)
        /\ \A p \in 1..i : \A k \in (p + 2)..Len(img_list) :
               Gap(img_list, p, p + 1) <= Gap(img_list, p, k)
C17_Witness ==
    /\ pc = "sorted"
    /\ args.sort_method = sort_face_cnn
    /\ Len(img_list) = 3
    /\ Gap(Loaded, 1, 2) = Gap(Loaded, 1, 3)
    /\ Gap(Loaded, 1, 2) > 0
    /\ img_list = Loaded
\* the dissimilarity sorts
DissimMethods == {sort_hist_dissim, sort_face_cnn_dissim}

\* the sum of the distances of the entry at position p to all the others
TotalGap(list, p) ==
    Sum([k \in 1..Len(list) |-> IF k = p THEN 0 ELSE Gap(list, p, k)])

\* C18: the list sort_hist_dissim and sort_face_cnn_dissim return carries,
\* for every item, the last one too, the sum of its distances to all other
\* items, and is in non-increasing order of that sum.
C18_TotalDissimilarity ==
    (pc = "sorted" /\ args.sort_method \in DissimMethods) =>
        /\ \A p \in 1..Len(img_list) : img_list[p].score = TotalGap(img_list, p)
        /\ \A p \in 1..(Len(img_list) - 1) :
               TotalGap(img_list, p) >= TotalGap(img_list, p + 1)

\* C18 for sort_hist_dissim alone
C18_HistDissim ==
    args.sort_method = sort_hist_dissim => C18_TotalDissimilarity

\* C18, what sort_face_cnn_dissim keeps: its list is in non-increasing order
\* of the score it attached
C18_OrderedByScore ==
    (pc = "sorted" /\ args.sort_method \in DissimMethods) =>
        \A p \in 1..(Len(img_list) - 1) : img_list[p].score >= img_list[p + 1].score

-----------------------------------------------------------------------------
(* The group methods.                                                      *)

group_blur ==
    <<"g", "r", "o", "u", "p", "_", "b", "l", "u", "r">>
group_blur_fft ==
    <<"g", "r", "o", "u", "p", "_", "b", "l", "u", "r", "_", "f", "f", "t">>
group_face_cnn ==
    <<"g", "r", "o", "u", "p", "_", "f", "a", "c", "e", "_", "c", "n", "n">>
group_face_yaw ==
    <<"g", "r", "o", "u", "p", "_", "f", "a", "c", "e", "_", "y", "a", "w">>
group_hist ==
    <<"g", "r", "o", "u", "p", "_", "h", "i", "s", "t">>
group_black_pixels ==
    <<"g", "r", "o", "u", "p", "_", "b", "l", "a", "c", "k", "_", "p", "i", "x", "e", "l", "s">>

\* the group_* methods of the class
GroupMethods ==
    { group_blur, group_blur_fft, group_face_cnn, group_face_yaw, group_hist,
      group_black_pixels }

\* the remainder appended from the front of the tail
EqualSplitForward(list, num_bins) ==
    LET n == Len(list)
        num_per_bin == n \div num_bins
        remainder == n % num_bins
        Evenly(b) == [k \in 1..num_per_bin |-> list[(b - 1) * num_per_bin + k].file]
        Extra == [k \in 1..remainder |-> list[n - remainder + k].file]
    IN  [b \in 1..num_bins |-> IF b = num_bins THEN Evenly(b) \o Extra ELSE Evenly(b)]

\* group_blur, group_blur_fft, group_face_yaw: num_per_bin items to every bin
\* in order, then the last remainder items, from the end, to the last bin
EqualSplit(list, num_bins) ==
    LET n == Len(list)
        num_per_bin == n \div num_bins
        remainder == n % num_bins
        Evenly(b) == [k \in 1..num_per_bin |-> list[(b - 1) * num_per_bin + k].file]
        Extra == [k \in 1..remainder |-> list[n - k + 1].file]
    IN  [b \in 1..num_bins |-> IF b = num_bins THEN Evenly(b) \o Extra ELSE Evenly(b)]

\* _near_split(bin_range, num_bins): [0] and the running sums of the widths
NearSplit(bin_range, num_bins) ==
    LET quotient == bin_range \div num_bins
        remainder == bin_range % num_bins
        seps == [k \in 1..num_bins |-> IF k <= remainder THEN quotient + 1 ELSE quotient]
    IN  <<0>> \o [m \in 1..num_bins |-> Sum(SubSeq(seps, 1, m))]

\* np.digitize(x, edges, right=True), edges increasing: the number of edges
\* strictly below x
Digitize(x, edges) == Cardinality({k \in 1..Len(edges) : edges[k] < x})

\* the index group_black_pixels computes for one value
BlackPixelsBin(x, num_bins) == Digitize(x, NearSplit(100, num_bins))

\* np.sum(np.absolute((fl2 - fl1).flatten())) of get_avg_score_faces_cnn: a
\* reference that is one landmark is broadcast over the landmarks of fl1
FaceCnnScore(fl1, fl2) ==
    Sum([k \in 1..Len(fl1) |-> Abs(fl2[IF Len(fl2) = 1 THEN 1 ELSE k] - fl1[k])])

\* get_avg_score_hist / get_avg_score_faces_cnn: sum(scores) / len(scores),
\* kept as the pair of the sum and the count
AvgScore(method, val, references) ==
    [num |-> Sum([k \in 1..Len(references) |->
                    IF method = group_hist THEN CompareHist(val, references[k])
                    ELSE FaceCnnScore(val, references[k])]),
     den |-> Len(references)]

\* a value that is no array: None
None == <<>>

\* the exception the comparison of val with one reference raises, "" for none:
\* cv2.compareHist wants two histograms of one size; fl2 - fl1 is a TypeError
\* when one of them is None and a ValueError when the shapes do not broadcast
CompareRaises(method, val, ref) ==
    IF method = group_hist
    THEN IF val = None \/ ref = None \/ Len(val) # Len(ref) THEN "cv2.error" ELSE ""
    ELSE IF val = None \/ ref = None THEN "TypeError"
         ELSE IF Len(val) # Len(ref) /\ Len(val) # 1 /\ Len(ref) # 1 THEN "ValueError"
         ELSE ""

\* the exception get_avg_score_hist / get_avg_score_faces_cnn leaves with: the
\* one of the first reference that raises
AvgRaises(method, val, references) ==
    IF \A k \in 1..Len(references) : CompareRaises(method, val, references[k]) = ""
    THEN IF Len(references) = 0 THEN "ZeroDivisionError" ELSE ""
    ELSE LET first == CHOOSE k \in 1..Len(references) :
                         /\ CompareRaises(method, val, references[k]) # ""
                         /\ \A m \in 1..(k - 1) : CompareRaises(method, val, references[m]) = ""
         IN  CompareRaises(method, val, references[first])

\* the exceptions the loop over the groups catches: group_face_cnn has
\* except TypeError and except ZeroDivisionError, group_hist has no try
Caught(method) ==
    IF method = group_face_cnn THEN {"TypeError", "ZeroDivisionError"} ELSE {}

\* float("inf") as an average
InfScore == [num |-> Inf, den |-> 1]

\* the score of one group in the loop over the groups
GroupScore(method, val, references) ==
    IF AvgRaises(method, val, references) \in Caught(method) THEN InfScore
    ELSE AvgScore(method, val, references)

\* the exception that leaves the loop over the groups, "" for none
ScanRaises(method, val, groups) ==
    LET Escapes(g) == AvgRaises(method, val, groups[g]) \notin (Caught(method) \cup {""})
    IN  IF \A g \in 1..Len(groups) : ~Escapes(g) THEN ""
        ELSE LET first == CHOOSE g \in 1..Len(groups) :
                             Escapes(g) /\ \A m \in 1..(g - 1) : ~Escapes(m)
             IN  AvgRaises(method, val, groups[first])

\* a / b < c / d
Less(a, b) == a.num * b.den < b.num * a.den

RECURSIVE ScanGroups(_, _, _, _, _)
\* the loop over reference_groups.items(): the first group whose average is
\* strictly below every average before it
ScanGroups(method, val, groups, key, current_best) ==
    IF key >= Len(groups) THEN current_best
    ELSE LET score == GroupScore(method, val, groups[key + 1])
         IN  IF Less(score, current_best.score)
             THEN ScanGroups(method, val, groups, key + 1, [key |-> key, score |-> score])
             ELSE ScanGroups(method, val, groups, key + 1, current_best)

CurrentBest(method, val, groups) ==
    ScanGroups(method, val, groups, 0, [key |-> -1, score |-> InfScore])

\* current_best[1] < min_threshold; args.min_threshold is kept in thousandths,
\* and group_face_cnn compares with min_threshold * 1000
BelowThreshold(method, score, min_threshold) ==
    IF method = group_hist
    THEN score.num * 1000 < min_threshold * score.den
    ELSE score.num * 1000 < min_threshold * 1000 * score.den

\* what the method appends to the reference list of the group it chose
AcceptedReference(method, val) ==
    IF method = group_hist THEN val ELSE <<val[1]>>

\* the indices the item loop of a clustering method visits
ClusterLast(method, list) == IF method = group_hist THEN Len(list) ELSE Len(list) - 1

\* getattr(self, group_method) on a name that is no method
GroupUnknown ==
    /\ pc = "group"
    /\ args.group_method \notin GroupMethods
    /\ pc' = "raised"
    /\ error' = "AttributeError"
    /\ UNCHANGED <<args, img_list, bins, i, j, images, reference_groups>>
    /\ UNCHANGED diskVars

\* group_blur, group_blur_fft, group_face_yaw
GroupEqualSplit ==
    /\ pc = "group"
    /\ args.group_method \in {group_blur, group_blur_fft, group_face_yaw}
    /\ bins' = EqualSplit(img_list, args.num_bins)
    /\ pc' = "grouped"
    /\ UNCHANGED <<args, img_list, i, j, images, reference_groups, error>>
    /\ UNCHANGED diskVars

\* group_black_pixels, up to the placing loop
BlackPixelsBegin ==
    /\ pc = "group"
    /\ args.group_method = group_black_pixels
    /\ bins' = [b \in 1..args.num_bins |-> <<>>]
    /\ pc' = "place"
    /\ i' = 0
    /\ UNCHANGED <<args, img_list, j, images, reference_groups, error>>
    /\ UNCHANGED diskVars

\* group_black_pixels, one item: bins[_bin].append(img_list[idx][0])
BlackPixelsStep ==
    /\ pc = "place"
    /\ i < Len(img_list)
    /\ LET bin == BlackPixelsBin(img_list[i + 1].val, args.num_bins)
       IN  IF bin < Len(bins)
           THEN /\ bins' = [bins EXCEPT ![bin + 1] = Append(@, img_list[i + 1].file)]
                /\ UNCHANGED <<pc, error>>
           ELSE /\ pc' = "raised"
                /\ error' = "IndexError"
                /\ UNCHANGED bins
    /\ i' = i + 1
    /\ UNCHANGED <<args, img_list, j, images, reference_groups>>
    /\ UNCHANGED diskVars

BlackPixelsEnd ==
    /\ pc = "place"
    /\ i = Len(img_list)
    /\ pc' = "grouped"
    /\ UNCHANGED <<args, img_list, bins, i, j, images, reference_groups, error>>
    /\ UNCHANGED diskVars

\* group_hist, up to the item loop: the first item seeds group 0
GroupHistBegin ==
    /\ pc = "group"
    /\ args.group_method = group_hist
    /\ IF Len(img_list) = 0
       THEN /\ pc' = "raised"
            /\ error' = "IndexError"
            /\ UNCHANGED <<bins, reference_groups>>
       ELSE /\ reference_groups' = << <<img_list[1].val>> >>
            /\ bins' = << <<img_list[1].file>> >>
            /\ pc' = "cluster"
            /\ UNCHANGED error
    /\ i' = 1
    /\ UNCHANGED <<args, img_list, j, images>>
    /\ UNCHANGED diskVars

\* group_face_cnn, up to the item loop
GroupFaceCnnBegin ==
    /\ pc = "group"
    /\ args.group_method = group_face_cnn
    /\ reference_groups' = <<>>
    /\ bins' = <<>>
    /\ pc' = "cluster"
    /\ i' = 0
    /\ UNCHANGED <<args, img_list, j, images, error>>
    /\ UNCHANGED diskVars

\* group_hist, group_face_cnn: one item of the loop
ClusterStep ==
    /\ pc = "cluster"
    /\ i < ClusterLast(args.group_method, img_list)
    /\ LET item == img_list[i + 1]
           raised == ScanRaises(args.group_method, item.val, reference_groups)
           current_best == CurrentBest(args.group_method, item.val, reference_groups)
       IN  IF raised # ""
           THEN /\ pc' = "raised"
                /\ error' = raised
                /\ UNCHANGED <<bins, reference_groups>>
           ELSE /\ IF BelowThreshold(args.group_method, current_best.score,
                                     args.min_threshold)
                   THEN /\ reference_groups' =
                               [reference_groups EXCEPT ![current_best.key + 1] =
                                   Append(@, AcceptedReference(args.group_method, item.val))]
                        /\ bins' = [bins EXCEPT ![current_best.key + 1] =
                                        Append(@, item.file)]
                   ELSE /\ reference_groups' = Append(reference_groups, <<item.val>>)
                        /\ bins' = Append(bins, <<item.file>>)
                /\ UNCHANGED <<pc, error>>
    /\ i' = i + 1
    /\ UNCHANGED <<args, img_list, j, images>>
    /\ UNCHANGED diskVars

ClusterEnd ==
    /\ pc = "cluster"
    /\ i >= ClusterLast(args.group_method, img_list)
    /\ pc' = "grouped"
    /\ UNCHANGED <<args, img_list, bins, i, j, images, reference_groups, error>>
    /\ UNCHANGED diskVars

GroupNext ==
    \/ GroupEqualSplit
    \/ BlackPixelsBegin \/ BlackPixelsStep \/ BlackPixelsEnd
    \/ GroupHistBegin \/ GroupFaceCnnBegin \/ ClusterStep \/ ClusterEnd

-----------------------------------------------------------------------------
(* The group methods on their own: any list of up to MaxItems items.       *)

\* args.min_threshold, in thousandths
ThresholdPool == {0, 1500, 4000}

\* values the comparison cannot take: an array of another size, and None
Misfits == {<<1, 0, 2>>, None}

\* a value far from the others: at the distance 20 from <<0, 0>> and from
\* <<0, 2>>, which are at the distance 2 from each other
FarValues == {<<19, 1>>}

\* the methods that split the list evenly; they never read a value
EqualSplitMethods == {group_blur, group_blur_fft, group_face_yaw}

\* percentages of black pixels, on and off the edges of the bins
PercentPool == {0, 24, 25, 60, 100}

GroupValuePool(method) ==
    IF method \in {group_hist, group_face_cnn} THEN VecPool \cup FarValues \cup Misfits
    ELSE IF method = group_black_pixels THEN PercentPool
    ELSE {0}

\* the lengths of the lists a method is given
GroupCounts(method) ==
    IF method \in EqualSplitMethods
    THEN 0..(IF MaxSplitItems < Len(FileOrder) THEN MaxSplitItems ELSE Len(FileOrder))
    ELSE Counts

GroupInit ==
    /\ \E method \in GroupMethods : \E n \in GroupCounts(method) :
       \E val \in [1..n -> GroupValuePool(method)] :
       \E num_bins \in 1..MaxNumBins, min_threshold \in ThresholdPool :
          /\ method \in {group_hist, group_face_cnn} => num_bins = 1
          /\ method \notin {group_hist, group_face_cnn} => min_threshold = 0
          /\ args = [DefaultArgs EXCEPT !.group_method = method,
                                        !.final_process = final_process_folders,
                                        !.num_bins = num_bins,
                                        !.min_threshold = min_threshold]
          /\ img_list = [k \in 1..n |-> Entry(FileOrder[k], val[k])]
          /\ images = [k \in 1..n |-> Image(FileOrder[k], TRUE, val[k], val[k])]
    /\ pc = "group"
    /\ bins = <<>>
    /\ reference_groups = <<>>
    /\ i = 0
    /\ j = 0
    /\ fs = [p \in {images[k].file : k \in 1..Len(images)} |-> p]
    /\ dirs = {InDir}
    /\ changes = EmptyMap
    /\ saved = <<>>
    /\ failed = {}
    /\ fs0 = fs
    /\ error = ""

SpecGroup == GroupInit /\ [][GroupNext]_vars

\* how often file f is in the bins
BinCount(f) ==
    Sum([b \in 1..Len(bins) |-> Cardinality({k \in 1..Len(bins[b]) : bins[b][k] = f})])

\* C1: for every group method and every list of n >= 1 items the returned
\* bins are an exact partition of the list: every item of the list is in
\* exactly one bin, once, and the bins hold nothing else.
C1_BinsPartition ==
    (pc = "grouped" /\ Len(img_list) >= 1) =>
        /\ \A k \in 1..Len(img_list) : BinCount(img_list[k].file) = 1
        /\ \A b \in 1..Len(bins) : \A k \in 1..Len(bins[b]) :
               \E m \in 1..Len(img_list) : img_list[m].file = bins[b][k]

\* C12: group_blur, group_blur_fft and group_face_yaw, with q, r =
\* divmod(n, num_bins): there are num_bins bins; bin k starts with the items
\* at positions k*q .. k*q+q-1 in order; the last bin then holds the items at
\* positions n-1, n-2, .., n-r in that order; every other bin has q items and
\* the last has q + r.
C12_EqualSplitLayout ==
    (pc = "grouped" /\ args.group_method \in EqualSplitMethods) =>
        LET n == Len(img_list)
            q == n \div args.num_bins
            r == n % args.num_bins
        IN  /\ Len(bins) = args.num_bins
            /\ \A k \in 0..(args.num_bins - 1) :
                   /\ Len(bins[k + 1]) = IF k = args.num_bins - 1 THEN q + r ELSE q
                   /\ \A m \in 0..(q - 1) : bins[k + 1][m + 1] = img_list[k * q + m + 1].file
            /\ \A t \in 1..r : bins[args.num_bins][q + t] = img_list[n - t + 1].file
C12_Witness ==
    /\ pc = "grouped"
    /\ args.group_method = group_face_yaw
    /\ Len(img_list) = 5
    /\ args.num_bins = 3
    /\ bins[3] = <<img_list[3].file, img_list[5].file, img_list[4].file>>

\* the width of bin m (from 0) and the edge k (from 0) of num_bins bins over
\* 0..100, as C13 states them
EdgeWidth(m, num_bins) ==
    IF m < 100 % num_bins THEN (100 \div num_bins) + 1 ELSE 100 \div num_bins
RECURSIVE Edge(_, _)
Edge(k, num_bins) ==
    IF k = 0 THEN 0 ELSE Edge(k - 1, num_bins) + EdgeWidth(k - 1, num_bins)

\* the smallest k with Edge(k) >= v, for v in 0..100
EdgeIndex(v, num_bins) ==
    CHOOSE k \in 0..num_bins :
        /\ Edge(k, num_bins) >= v
        /\ \A m \in 0..(k - 1) : Edge(m, num_bins) < v

\* the positions in img_list of the members of bin b (from 1), in bin order
BinPositions(b) ==
    [k \in 1..Len(bins[b]) |->
        CHOOSE m \in 1..Len(img_list) : img_list[m].file = bins[b][k]]

\* C13, the placement: an item that group_black_pixels has placed is in the
\* bin whose index is the smallest k with Edge(k) >= value, and the items of
\* a bin are in the order of the list.
C13_PlacedByRule ==
    (pc \in {"place", "grouped"} /\ args.group_method = group_black_pixels) =>
        /\ \A m \in 1..i :
               LET k == EdgeIndex(img_list[m].val, args.num_bins)
               IN  /\ k + 1 \in 1..Len(bins)
                   /\ \E x \in 1..Len(bins[k + 1]) : bins[k + 1][x] = img_list[m].file
        /\ \A b \in 1..Len(bins) : \A x, y \in 1..Len(bins[b]) :
               x < y => BinPositions(b)[x] < BinPositions(b)[y]

\* C13: group_black_pixels places every item with a value in 0..100 (it never
\* stops on an item), by the rule of C13_PlacedByRule.
C13_ThresholdEdgeBinning ==
    /\ args.group_method = group_black_pixels => error = ""
    /\ C13_PlacedByRule

\* C14, the edges: four bins have the edges 0, 25, 50, 75, 100.
C14_Edges ==
    NearSplit(100, 4) = <<0, 25, 50, 75, 100>>

\* C14, the edge value: with four bins an item with the value 25 is in the
\* bin with index 1.
C14_OnEdge ==
    (pc = "grouped" /\ args.group_method = group_black_pixels /\ args.num_bins = 4) =>
        \A m \in 1..Len(img_list) :
            img_list[m].val = 25 => \E x \in 1..Len(bins[2]) : bins[2][x] = img_list[m].file

\* C14: with four bins the edges are 0, 25, 50, 75, 100, an item with the
\* value 25 is in the bin with index 1 and an item with a value strictly
\* between 0 and 25 is in the bin with index 0.
C14_EdgeExample ==
    /\ C14_Edges
    /\ C14_OnEdge
    /\ (pc = "grouped" /\ args.group_method = group_black_pixels /\ args.num_bins = 4) =>
           \A m \in 1..Len(img_list) :
               (0 < img_list[m].val /\ img_list[m].val < 25) =>
                   \E x \in 1..Len(bins[1]) : bins[1][x] = img_list[m].file

\* C23: for every num_bins >= 1 and every value in 0..100, the index
\* group_black_pixels computes for an item it has come to is one of
\* 0..num_bins-1, and the method does not stop on an error.
C23_BinIndexInRange ==
    (args.group_method = group_black_pixels /\ pc \in {"place", "grouped", "raised"}) =>
        /\ \A k \in 1..i :
               BlackPixelsBin(img_list[k].val, args.num_bins) \in 0..(args.num_bins - 1)
        /\ error = ""

\* C23, where it holds: values up to the last-but-one edge have an index in
\* 0..num_bins-1.
C23_InRangeBelowLastEdge ==
    args.group_method = group_black_pixels =>
        \A k \in 1..Len(img_list) :
            img_list[k].val <= NearSplit(100, args.num_bins)[args.num_bins] =>
                BlackPixelsBin(img_list[k].val, args.num_bins) \in 0..(args.num_bins - 1)

\* the two clustering methods
ClusterMethods == {group_hist, group_face_cnn}

\* every value of the list is a complete fingerprint
WellFormed == \A k \in 1..Len(img_list) : Len(img_list[k].val) = 2

\* the distance of two complete fingerprints
FullDistance(method, a, b) ==
    IF method = group_hist THEN CompareHist(a, b) ELSE Sum([k \in 1..2 |-> Abs(b[k] - a[k])])

\* the sum of the distances of the item at position at to the members of a
\* group, a group being the sequence of the positions of its members
DistanceSum(method, at, group) ==
    Sum([k \in 1..Len(group) |->
            FullDistance(method, img_list[at].val, img_list[group[k]].val)])

\* the threshold in thousandths: group_face_cnn takes the option times 1000
ThresholdOf(method) ==
    IF method = group_hist THEN args.min_threshold ELSE args.min_threshold * 1000

\* the group of the least mean distance, the lowest one on ties
Nearest(method, at, groups) ==
    CHOOSE g \in 1..Len(groups) :
        /\ \A h \in 1..Len(groups) :
               DistanceSum(method, at, groups[g]) * Len(groups[h])
                   <= DistanceSum(method, at, groups[h]) * Len(groups[g])
        /\ \A h \in 1..(g - 1) :
               DistanceSum(method, at, groups[g]) * Len(groups[h])
                   < DistanceSum(method, at, groups[h]) * Len(groups[g])

RECURSIVE Clustering(_, _)
\* the groups of C15 after the items 1..upto of img_list
Clustering(method, upto) ==
    IF upto = 0 THEN <<>>
    ELSE IF upto = 1 THEN << <<1>> >>
    ELSE LET before == Clustering(method, upto - 1)
             g == Nearest(method, upto, before)
         IN  IF DistanceSum(method, upto, before[g]) * 1000
                    < ThresholdOf(method) * Len(before[g])
             THEN [before EXCEPT ![g] = Append(@, upto)]
             ELSE Append(before, <<upto>>)

\* the files of groups of positions
FilesOf(groups) ==
    [g \in 1..Len(groups) |-> [k \in 1..Len(groups[g]) |-> img_list[groups[g][k]].file]]

\* C15: the bins group_hist and group_face_cnn return are those of the online
\* clustering of the whole list: item 1 seeds group 0, every later item joins
\* the group of the least mean distance to all members (lowest id on ties) iff
\* that mean is strictly below the threshold, and otherwise opens the next
\* group.
C15_OnlineClustering ==
    (pc = "grouped" /\ args.group_method \in ClusterMethods /\ WellFormed) =>
        bins = FilesOf(Clustering(args.group_method, Len(img_list)))

\* C15 for group_hist alone, at every step of its loop
C15_GroupHistClustering ==
    (pc \in {"cluster", "grouped"} /\ args.group_method = group_hist /\ WellFormed) =>
        bins = FilesOf(Clustering(group_hist, i))

\* C15, the example: A and B at the distance 2, C at the distance 20 from
\* both, threshold 4, order A, B, C (the distances 1, 10, 10 and the threshold
\* 2 of the example, doubled)
ExampleABC ==
    /\ Len(img_list) = 3
    /\ img_list[1].val = <<0, 0>>
    /\ img_list[2].val = <<0, 2>>
    /\ img_list[3].val = <<19, 1>>
    /\ args.min_threshold = 4000

C15_GroupHistExample ==
    (pc = "grouped" /\ args.group_method = group_hist /\ ExampleABC) =>
        bins = << <<img_list[1].file, img_list[2].file>>, <<img_list[3].file>> >>

\* the value of the item whose file is f
ValueOf(f) == img_list[CHOOSE m \in 1..Len(img_list) : img_list[m].file = f].val

\* C16: at every step of group_hist and group_face_cnn, reference_groups and
\* bins have the same groups, every group as many references as members, and
\* the k-th reference of a group is the complete value of its k-th member.
C16_ReferencesAreMembers ==
    (pc \in {"cluster", "grouped"} /\ args.group_method \in ClusterMethods) =>
        /\ Len(reference_groups) = Len(bins)
        /\ \A g \in 1..Len(bins) :
               /\ Len(reference_groups[g]) = Len(bins[g])
               /\ \A k \in 1..Len(bins[g]) : reference_groups[g][k] = ValueOf(bins[g][k])

\* C16 for group_hist alone
C16_GroupHistReferences ==
    args.group_method = group_hist => C16_ReferencesAreMembers

\* C11: group_hist and group_face_cnn never stop on an exception of the
\* comparison of an item with the references of a group.
C11_ComparatorFailureNeverAborts ==
    args.group_method \in ClusterMethods =>
        error \notin {"cv2.error", "ValueError", "TypeError", "ZeroDivisionError"}

\* C11, the part group_face_cnn keeps: a TypeError of the comparison never
\* leaves the method, and an item is never accepted into a group that holds a
\* reference it cannot be compared with.
C11_FaceCnnTypeErrorCaught ==
    args.group_method = group_face_cnn =>
        /\ error \notin {"TypeError", "ZeroDivisionError"}
        /\ \A g \in 1..Len(reference_groups) :
               Len(reference_groups[g]) >= 2 =>
                   \A k \in 1..Len(reference_groups[g]) : reference_groups[g][k] # None

-----------------------------------------------------------------------------
(* process and sort_process: the names, the dispatch, the reload.          *)

Upper == <<"A", "B", "C", "D", "E", "F", "G", "H", "I", "J", "K", "L", "M",
           "N", "O", "P", "Q", "R", "S", "T", "U", "V", "W", "X", "Y", "Z">>
Lowercase == <<"a", "b", "c", "d", "e", "f", "g", "h", "i", "j", "k", "l", "m",
               "n", "o", "p", "q", "r", "s", "t", "u", "v", "w", "x", "y", "z">>

\* str.lower()
Lower(str) ==
    [k \in 1..Len(str) |->
        IF \E u \in 1..Len(Upper) : Upper[u] = str[k]
        THEN Lowercase[CHOOSE u \in 1..Len(Upper) : Upper[u] = str[k]]
        ELSE str[k]]

\* str.replace(old, new) for single characters
ReplaceChar(str, old, new) == [k \in 1..Len(str) |-> IF str[k] = old THEN new ELSE str[k]]

\* str.startswith(prefix)
StartsWith(str, prefix) ==
    Len(prefix) <= Len(str) /\ SubSeq(str, 1, Len(prefix)) = prefix

\* sub in str
IsSubstring(sub, str) ==
    \E k \in 0..(Len(str) - Len(sub)) : SubSeq(str, k + 1, k + Len(sub)) = sub

RECURSIVE RemoveAll(_, _)
\* str.replace(sub, ''), sub not empty
RemoveAll(str, sub) ==
    IF str = <<>> THEN <<>>
    ELSE IF StartsWith(str, sub) THEN RemoveAll(SubSeq(str, Len(sub) + 1, Len(str)), sub)
    ELSE <<Head(str)>> \o RemoveAll(Tail(str), sub)

\* process: "sort_" + sort_method.lower(), cut to "sort_color" for the color
\* methods, "-" replaced by "_"
SortName(raw) ==
    LET name == <<"s", "o", "r", "t", "_">> \o Lower(raw)
        cut == IF StartsWith(name, <<"s", "o", "r", "t", "_", "c", "o", "l", "o", "r", "-">>) THEN SubSeq(name, 1, 10) ELSE name
    IN  ReplaceChar(cut, "-", "_")

\* process: "group_" + group_method.lower(), "-" replaced by "_"
GroupName(raw) == ReplaceChar(<<"g", "r", "o", "u", "p", "_">> \o Lower(raw), "-", "_")

\* process: "final_process_" + final_process.lower(), "-" replaced by "_"
FinalProcessName(raw) == ReplaceChar(<<"f", "i", "n", "a", "l", "_", "p", "r", "o", "c", "e", "s", "s", "_">> \o Lower(raw), "-", "_")

\* process: the default threshold of the group method, in thousandths
DefaultThreshold(a) ==
    IF a.final_process = <<"f", "o", "l", "d", "e", "r", "s">> /\ a.min_threshold < 0
    THEN IF Lower(a.group_method) = <<"f", "a", "c", "e", "-", "c", "n", "n">> THEN 7200
         ELSE IF Lower(a.group_method) = <<"h", "i", "s", "t">> THEN 300
         ELSE a.min_threshold
    ELSE a.min_threshold

\* sort_process: "folders" in final_method
WantsFolders(final_method) == IsSubstring(<<"f", "o", "l", "d", "e", "r", "s">>, final_method)

\* sort_process: group_method.replace('group_', '') not in sort_method
NeedsReload(group_method, sort_method) ==
    ~IsSubstring(RemoveAll(group_method, <<"g", "r", "o", "u", "p", "_">>), sort_method)

\* a join by position: the k-th value of new_vals_list for the k-th entry
SpliceByPosition(sorted_list, new_vals_list) ==
    [k \in 1..Len(sorted_list) |->
        Entry(FileOf(sorted_list[k]), new_vals_list[k].val)]

\* splice_lists: the sorted list with, for every file, the value of the first
\* entry of new_vals_list that has that file
SpliceLists(sorted_list, new_vals_list) ==
    [k \in 1..Len(sorted_list) |->
        LET current_img == FileOf(sorted_list[k])
            new_val_index == CHOOSE m \in 1..Len(new_vals_list) :
                                /\ new_vals_list[m].file = current_img
                                /\ \A x \in 1..(m - 1) : new_vals_list[x].file # current_img
        IN  Entry(current_img, new_vals_list[new_val_index].val)]

\* reload_images: temp_list, the value of the group method for every image that
\* find_images lists
TempList == [k \in 1..Len(images) |-> Entry(images[k].file, images[k].regroup)]

\* process
Process ==
    /\ pc = "process"
    /\ args' = [args EXCEPT
                   !.output_dir = IF args.output_dir = <<>> THEN args.input_dir
                                  ELSE args.output_dir,
                   !.min_threshold = DefaultThreshold(args),
                   !.sort_method = SortName(args.sort_method),
                   !.group_method = GroupName(args.group_method),
                   !.final_process = FinalProcessName(args.final_process)]
    /\ changes' = IF args.log_changes THEN EmptyMap ELSE changes
    /\ pc' = "sort"
    /\ UNCHANGED <<img_list, bins, i, j, fs, dirs, saved, failed, fs0>>
    /\ UNCHANGED sortVars

\* sort_process, after the sort method returned
SortReturned ==
    /\ pc = "sorted"
    /\ pc' = IF WantsFolders(Lower(args.final_process))
             THEN IF NeedsReload(Lower(args.group_method), Lower(args.sort_method))
                  THEN "reload" ELSE "group"
             ELSE "final"
    /\ UNCHANGED <<args, img_list, bins, i, j>>
    /\ UNCHANGED sortVars
    /\ UNCHANGED diskVars

\* reload_images
Reload ==
    /\ pc = "reload"
    /\ IF Lower(args.group_method) \in GroupMethods
       THEN /\ img_list' = SpliceLists(img_list, TempList)
            /\ pc' = "group"
            /\ UNCHANGED error
       ELSE /\ pc' = "raised"
            /\ error' = "ValueError"
            /\ UNCHANGED img_list
    /\ UNCHANGED <<args, bins, i, j, images, reference_groups>>
    /\ UNCHANGED diskVars

\* sort_process, after the group method returned
GroupReturned ==
    /\ pc = "grouped"
    /\ pc' = "final"
    /\ UNCHANGED <<args, img_list, bins, i, j>>
    /\ UNCHANGED sortVars
    /\ UNCHANGED diskVars

\* getattr(self, final_method)
FinalDispatch ==
    /\ pc = "final"
    /\ IF Lower(args.final_process) = final_process_rename
       THEN pc' = "final_process_rename" /\ UNCHANGED error
       ELSE IF Lower(args.final_process) = final_process_folders
       THEN pc' = "final_process_folders" /\ UNCHANGED error
       ELSE pc' = "raised" /\ error' = "AttributeError"
    /\ UNCHANGED <<args, img_list, bins, i, j, images, reference_groups>>
    /\ UNCHANGED diskVars

RunNext ==
    \/ Process \/ SortNext \/ SortReturned \/ Reload \/ GroupUnknown \/ GroupNext
    \/ GroupReturned \/ FinalDispatch \/ FinalNext

-----------------------------------------------------------------------------
(* A whole run: any method names, up to MaxItems images, at most one of    *)
(* them without metadata.                                                  *)

\* the names the command line offers, and some it does not
RawSortNames ==
    { <<"d", "i", "s", "t", "a", "n", "c", "e">>,
      <<"b", "l", "u", "r">>,
      <<"b", "l", "u", "r", "-", "f", "f", "t">>,
      <<"c", "o", "l", "o", "r", "-", "g", "r", "a", "y">>,
      <<"f", "a", "c", "e">>,
      <<"f", "a", "c", "e", "-", "c", "n", "n">>,
      <<"f", "a", "c", "e", "-", "c", "n", "n", "-", "d", "i", "s", "s", "i", "m">>,
      <<"f", "a", "c", "e", "-", "y", "a", "w">>,
      <<"h", "i", "s", "t">>,
      <<"h", "i", "s", "t", "-", "d", "i", "s", "s", "i", "m">>,
      <<"s", "i", "z", "e">>,
      <<"b", "l", "a", "c", "k", "-", "p", "i", "x", "e", "l", "s">>,
      <<"H", "I", "S", "T">>,
      <<"b", "o", "g", "u", "s">> }
RawGroupNames ==
    { <<"b", "l", "u", "r">>,
      <<"b", "l", "u", "r", "-", "f", "f", "t">>,
      <<"f", "a", "c", "e", "-", "c", "n", "n">>,
      <<"f", "a", "c", "e", "-", "y", "a", "w">>,
      <<"h", "i", "s", "t">>,
      <<"b", "l", "a", "c", "k", "-", "p", "i", "x", "e", "l", "s">>,
      <<"f", "a", "c", "e">>,
      <<"b", "o", "g", "u", "s">> }
RawFinalNames ==
    { <<"r", "e", "n", "a", "m", "e">>,
      <<"f", "o", "l", "d", "e", "r", "s">>,
      <<"b", "o", "g", "u", "s">> }

\* the values of the images of a run, by position, for the sort method and
\* for the group method
RunScalars == <<25, 0, 100, 60>>
RunVectors == <<<<0, 0>>, <<3, 3>>, <<1, 0>>, <<0, 2>>>>
RunRegroupScalars == <<50, 25, 0, 50>>
RunRegroupVectors == <<<<3, 3>>, <<0, 0>>, <<0, 2>>, <<1, 0>>>>

RunInit ==
    /\ \E sort \in RawSortNames, group \in RawGroupNames, final \in RawFinalNames :
       \E n \in Counts \ {0} : \E bare \in 0..n : \E log \in BOOLEAN :
          /\ args = [sort_method |-> sort, group_method |-> group,
                     final_process |-> final, input_dir |-> InDir,
                     output_dir |-> <<>>, keep_original |-> FALSE,
                     log_changes |-> log, num_bins |-> MaxBins,
                     min_threshold |-> -1]
          /\ images =
                [k \in 1..n |->
                    Image(FileOrder[k], k # bare,
                          IF SortName(sort) \in VectorValued
                          THEN RunVectors[k] ELSE RunScalars[k],
                          IF GroupName(group) \in {group_hist, group_face_cnn}
                          THEN RunRegroupVectors[k] ELSE RunRegroupScalars[k])]
    /\ pc = "process"
    /\ img_list = <<>>
    /\ bins = <<>>
    /\ reference_groups = <<>>
    /\ i = 0
    /\ j = 0
    /\ fs = [p \in {images[k].file : k \in 1..Len(images)} |-> p]
    /\ dirs = {InDir}
    /\ changes = EmptyMap
    /\ saved = <<>>
    /\ failed = {}
    /\ fs0 = fs
    /\ error = ""

SpecRun == RunInit /\ [][RunNext]_vars

-----------------------------------------------------------------------------
(* Claims about a whole run.                                               *)

\* the sort methods that read the alignment data of every image
MetadataMetrics == {sort_face, sort_face_yaw, sort_size, sort_distance}

\* the images the sort method of the run reads
Items == Listed(args.sort_method)

C10_UnknownNameAbortsFirst ==
    error \in {"AttributeError", "ValueError"} =>
        /\ i = 0
        /\ img_list = <<>>
        /\ bins = <<>>
        /\ fs = fs0

\* C10, the sort method alone: an unknown sort method stops the run before
\* any image is read.
C10_UnknownSortAbortsFirst ==
    (error = "AttributeError" /\ args.sort_method \notin SortMethods) =>
        /\ i = 0
        /\ img_list = <<>>
        /\ bins = <<>>
        /\ fs = fs0

\* the metric of the sort method and of the group method: the name without
\* "sort_" and without "group_"
SortMetric == SubSeq(args.sort_method, 6, Len(args.sort_method))
GroupMetric == SubSeq(args.group_method, 7, Len(args.group_method))

\* C19: when the sort method has returned, reload_images is what runs next
\* if and only if the final process is folders and the group metric is not
\* the sort metric; names of which one is part of the other are different
\* metrics. Stated for the methods the class has.
C19_ReloadIffDifferentMetric ==
    [][(pc = "sorted" /\ args.sort_method \in SortMethods
                       /\ args.group_method \in GroupMethods) =>
          ((pc' = "reload") <=> (FolderMode /\ GroupMetric # SortMetric))]_vars

\* C19, the same metric: the group method is what runs next, on the list the
\* sort method returned.
C19_SameMetricReused ==
    [][(pc = "sorted" /\ FolderMode /\ GroupMetric = SortMetric) =>
          (pc' = "group" /\ img_list' = img_list)]_vars

\* C19, the other final processes: reload_images runs in folder mode only.
C19_ReloadOnlyForFolders ==
    pc = "reload" => FolderMode

-----------------------------------------------------------------------------
(* reload_images and splice_lists on their own: any sorted list, and the   *)
(* images of the directory in any order.                                   *)

\* the files of the directory
SpliceFiles == {FileOrder[k] : k \in Counts \ {0}}

\* the sequences of n different members of a set
Arrangements(n, set) ==
    {seq \in [1..n -> set] : \A a, b \in 1..n : a # b => seq[a] # seq[b]}

SpliceInit ==
    /\ \E n \in Counts \ {0} : \E fresh \in Arrangements(n, SpliceFiles) :
       \E regroup \in [1..n -> {0, 25}] : \E m \in 0..n :
       \E sorted \in Arrangements(m, {fresh[k] : k \in 1..n}) :
       \E group \in {group_blur, GroupName(<<"b", "o", "g", "u", "s">>)} :
          /\ args = [DefaultArgs EXCEPT !.group_method = group,
                                        !.final_process = final_process_folders]
          /\ images = [k \in 1..n |-> Image(fresh[k], TRUE, 60, regroup[k])]
          /\ img_list = [k \in 1..m |-> Entry(sorted[k], 60)]
    /\ pc = "reload"
    /\ bins = <<>>
    /\ reference_groups = <<>>
    /\ i = 0
    /\ j = 0
    /\ fs = [p \in {images[k].file : k \in 1..Len(images)} |-> p]
    /\ dirs = {InDir}
    /\ changes = EmptyMap
    /\ saved = <<>>
    /\ failed = {}
    /\ fs0 = fs
    /\ error = ""

SpecSplice == SpliceInit /\ [][Reload]_vars

\* the value reload_images computed for file f
FreshValue(f) == images[CHOOSE m \in 1..Len(images) : images[m].file = f].regroup

\* C20: reload_images returns a list of the length of the sorted list, with
\* the same file at every position and, as the value, the value computed
\* anew for that file, wherever the file is in the new list.
C20_SplicePreservesOrder ==
    [][(pc = "reload" /\ pc' = "group") =>
          /\ Len(img_list') = Len(img_list)
          /\ \A k \in 1..Len(img_list) :
                /\ img_list'[k].file = FileOf(img_list[k])
                /\ img_list'[k].val = FreshValue(FileOf(img_list[k]))]_vars
C20_Witness ==
    /\ pc = "group"
    /\ Len(images) = 3
    /\ Len(img_list) = 2
    /\ img_list[1].file = images[3].file
    /\ img_list[2].file = images[1].file
    /\ img_list[1].val = 25
    /\ img_list[2].val = 0
    /\ images[2].regroup = 25

=============================================================================
